---- MODULE Spec2Model ----
(***************************************************************************)
(* Logic-network core of quaigh: the network (signals, gates, nodes,       *)
(* outputs), the fanout view, forward and reverse levelization and the     *)
(* substitute_node rewrite primitive.                                      *)
(*                                                                         *)
(* Node and input indices are 0-based as in the Rust code; TLA+ sequences  *)
(* are 1-based, so node i is nodes[i + 1].                                 *)
(***************************************************************************)
EXTENDS Integers, Sequences, FiniteSets, TLC

\* ------------------------------------------------------------------ bounds
MaxInputs == 1
MaxNodes == 2
MaxOutputs == 1
MaxLevel == 1
MaxSubst == 2
MaxPasses == 2

\* outputs added beyond MaxOutputs that name a node an output already names
MaxShared == 1

VARIABLES
    nb_inputs,      \* Network: number of primary inputs
    nodes,          \* Network: sequence of gates
    outputs,        \* Network: sequence of output signals
    aborted,        \* TRUE once a contract violation has aborted the program
    fanout_view,    \* the FanoutView last built by the caller, or NoView
    call,           \* the operation the caller made last, with its arguments
    level_view,     \* the result of the level computation made, or NoLevels
    hist            \* caller position: the rewriting operations made so far

vars == <<nb_inputs, nodes, outputs, aborted, fanout_view, call, level_view, hist>>

\* ------------------------------------------------------------------ Signal
Signal(kind, idx, inv) == [kind |-> kind, idx |-> idx, inv |-> inv]

is_constant(s) == s.kind = "const"

is_input(s) == s.kind = "input"

is_var(s) == s.kind = "var"

\* Signal::var: the node index of a node signal
var(s) == s.idx

\* Signal::var on a signal that names no node is a contract violation: the
\* call aborts
var_aborts(s) == ~is_var(s)

\* Signal::input: the input index of an input signal
input(s) == s.idx

\* operator `!` on a Signal: toggles the polarity bit
Not(s) == [s EXCEPT !.inv = ~s.inv]

\* same source, whatever the polarity
SameSource(s, t) == s.kind = t.kind /\ s.idx = t.idx

\* all signals naming a constant, one of ni inputs or one of nn nodes
Signals(ni, nn) ==
    {Signal("const", 0, b) : b \in BOOLEAN}
        \cup {Signal("input", i, b) : i \in 0..(ni - 1), b \in BOOLEAN}
        \cup {Signal("var", i, b) : i \in 0..(nn - 1), b \in BOOLEAN}

\* ------------------------------------------------------------------ Gate
And(a, b) == [type |-> "And", deps |-> <<a, b>>]

Buf(a) == [type |-> "Buf", deps |-> <<a>>]

dependencies(g) == g.deps

is_buf(g) == g.type = "Buf"

\* the gates a caller may hand to add, over the given signals
Gates(sigs) ==
    {And(a, b) : a \in sigs, b \in sigs} \cup {Buf(a) : a \in sigs}

\* ------------------------------------------------------------------ Network
Network(ni, ns, os) == [nb_inputs |-> ni, nodes |-> ns, outputs |-> os]

ntk == Network(nb_inputs, nodes, outputs)

nb_nodes(n) == Len(n.nodes)

nb_outputs(n) == Len(n.outputs)

gate(n, i) == n.nodes[i + 1]

node(n, i) == Signal("var", i, FALSE)

input_signal(n, i) == Signal("input", i, FALSE)

output(n, i) == n.outputs[i + 1]

\* a dependency allowed for the node at index i
ValidDep(n, i, d) ==
    \/ is_constant(d)
    \/ is_input(d) /\ input(d) < n.nb_inputs
    \/ is_var(d) /\ var(d) < i

\* the acyclicity invariant of the data model
Acyclic(n) ==
    \A i \in 0..(nb_nodes(n) - 1) :
        \A k \in 1..Len(dependencies(gate(n, i))) :
            ValidDep(n, i, dependencies(gate(n, i))[k])

NoView == [built |-> FALSE]

NoCall == [fn |-> "none"]

NoLevels == [status |-> "none"]

Init ==
    /\ nb_inputs = 0
    /\ nodes = <<>>
    /\ outputs = <<>>
    /\ aborted = FALSE
    /\ fanout_view = NoView
    /\ call = NoCall
    /\ level_view = NoLevels
    /\ hist = <<>>

\* the caller is still constructing or rewriting the network
Building == ~aborted /\ fanout_view = NoView /\ level_view = NoLevels /\ hist = <<>>

\* Network::add_input
add_input ==
    /\ Building
    /\ nb_inputs < MaxInputs
    /\ nb_inputs' = nb_inputs + 1
    /\ UNCHANGED <<nodes, outputs, aborted, fanout_view, call, level_view, hist>>

\* add_accepts letting a gate name its own node
add_accepts_self(n, g) ==
    \A k \in 1..Len(dependencies(g)) :
        is_var(dependencies(g)[k]) => var(dependencies(g)[k]) <= nb_nodes(n)

\* the check add makes on the gate it is given: no dependency names a node
\* that does not exist yet
add_accepts(n, g) ==
    \A k \in 1..Len(dependencies(g)) :
        is_var(dependencies(g)[k]) => var(dependencies(g)[k]) < nb_nodes(n)

\* Network::add
add(g) ==
    /\ Building
    /\ Len(nodes) < MaxNodes
    /\ IF add_accepts(ntk, g)
       THEN /\ nodes' = Append(nodes, g)
            /\ UNCHANGED aborted
       ELSE /\ aborted' = TRUE
            /\ UNCHANGED nodes
    /\ UNCHANGED <<nb_inputs, outputs, fanout_view, call, level_view, hist>>

\* Network::add_output
add_output(s) ==
    /\ Building
    /\ Len(outputs) < MaxOutputs
    /\ outputs' = Append(outputs, s)
    /\ UNCHANGED <<nb_inputs, nodes, aborted, fanout_view, call, level_view, hist>>

AddInput == add_input

\* the caller may also name the node being added, or a later one
Add == \E g \in Gates(Signals(nb_inputs, Len(nodes) + 1)) : add(g)

AddOutput == \E s \in Signals(nb_inputs, Len(nodes)) : add_output(s)

\* ------------------------------------------------------------------ FanoutView
\* push_fanin with complemented edges left out
push_fanin_plain_only(fv, i, fanin) ==
    IF fanin.inv
    THEN fv
    ELSE IF is_input(fanin)
         THEN [fv EXCEPT !.pi_fanout[input(fanin) + 1] = Append(@, i)]
         ELSE IF ~is_constant(fanin)
              THEN [fv EXCEPT !.node_fanout[var(fanin) + 1] = Append(@, i)]
              ELSE fv

\* push_fanin inserting at the front of the list
push_fanin_front(fv, i, fanin) ==
    IF is_input(fanin)
    THEN [fv EXCEPT !.pi_fanout[input(fanin) + 1] = <<i>> \o @]
    ELSE IF ~is_constant(fanin)
         THEN [fv EXCEPT !.node_fanout[var(fanin) + 1] = <<i>> \o @]
         ELSE fv

\* push_fanin recording a node at most once under each source
push_fanin_once(fv, i, fanin) ==
    IF is_input(fanin)
    THEN [fv EXCEPT !.pi_fanout[input(fanin) + 1] =
                        IF i \in {@[k] : k \in 1..Len(@)} THEN @ ELSE Append(@, i)]
    ELSE IF ~is_constant(fanin)
         THEN [fv EXCEPT !.node_fanout[var(fanin) + 1] =
                             IF i \in {@[k] : k \in 1..Len(@)} THEN @ ELSE Append(@, i)]
         ELSE fv

\* the body of the inner loop of FanoutView::new: record node i under fanin
push_fanin(fv, i, fanin) ==
    IF is_input(fanin)
    THEN [fv EXCEPT !.pi_fanout[input(fanin) + 1] = Append(@, i)]
    ELSE IF ~is_constant(fanin)
         THEN [fv EXCEPT !.node_fanout[var(fanin) + 1] = Append(@, i)]
         ELSE fv

\* for fanin in g.dependencies(), from the k-th dependency on
RECURSIVE push_fanins(_, _, _, _)
push_fanins(fv, i, deps, k) ==
    IF k > Len(deps)
    THEN fv
    ELSE push_fanins(push_fanin(fv, i, deps[k]), i, deps, k + 1)

\* for i in 0..ntk.nb_nodes(), from node i on
RECURSIVE fanout_loop(_, _, _)
fanout_loop(n, fv, i) ==
    IF i >= nb_nodes(n)
    THEN fv
    ELSE fanout_loop(n, push_fanins(fv, i, dependencies(gate(n, i)), 1), i + 1)

\* the view before the loop: one empty list per input and per node
empty_view(n) ==
    [built |-> TRUE,
     pi_fanout |-> [p \in 1..n.nb_inputs |-> <<>>],
     node_fanout |-> [v \in 1..nb_nodes(n) |-> <<>>]]

\* FanoutView::new
FanoutView_new(n) == fanout_loop(n, empty_view(n), 0)

\* FanoutView::fanouts
fanouts(fv, s) ==
    IF is_input(s)
    THEN fv.pi_fanout[input(s) + 1]
    ELSE IF ~is_constant(s)
         THEN fv.node_fanout[var(s) + 1]
         ELSE <<>>

\* the caller builds the view of the network it has constructed
BuildFanoutView ==
    /\ ~aborted
    /\ fanout_view = NoView
    /\ level_view = NoLevels
    /\ fanout_view' = FanoutView_new(ntk)
    /\ call' = [fn |-> "FanoutView_new"]
    /\ UNCHANGED <<nb_inputs, nodes, outputs, aborted, level_view, hist>>

\* ------------------------------------------------------------------ levels
None == [some |-> FALSE]

Some(v) == [some |-> TRUE, v |-> v]

Max(a, b) == IF a >= b THEN a ELSE b

\* vec![0; n]
Zeros(n) == [k \in 1..n |-> 0]

\* a failed assert_eq! on the table length: no level vector is returned
LengthAbort == [status |-> "abort", why |-> "length"]

\* Signal::var called on a signal that is not a node signal
VarAbort == [status |-> "abort", why |-> "var"]

Levels(lv) == [status |-> "ok", levels |-> lv]

\* level_inc counting every gate, buffers too
level_inc_always(count_buffer, g) == 1

\* the increment of a node: 0 for a Buf when buffers are not counted
level_inc(count_buffer, g) ==
    IF count_buffer
    THEN 1
    ELSE IF is_buf(g) THEN 0 ELSE 1

\* count_buffer.unwrap_or(true)
unwrap_or_true(count_buffer) ==
    IF count_buffer.some THEN count_buffer.v ELSE TRUE

\* LevelViewBuilder::fanin_level
fanin_level(b, pi) ==
    IF b.pi_levels.some THEN b.pi_levels.v[pi + 1] ELSE 0

\* LevelViewBuilder::update; st is <<visited, levels>>, the result adds the
\* returned level
RECURSIVE LevelViewBuilder_update(_, _, _)
RECURSIVE update_fanins(_, _, _, _, _)
LevelViewBuilder_update(b, st, n) ==
    IF n \in st.visited
    THEN [visited |-> st.visited, levels |-> st.levels, ret |-> st.levels[n + 1]]
    ELSE LET g == gate(b.ntk, n)
             r == update_fanins(b, [st EXCEPT !.visited = @ \cup {n}],
                                dependencies(g), 1, 0)
             lv == r.ret + level_inc(b.count_buffer, g)
         IN [visited |-> r.visited,
             levels |-> [r.levels EXCEPT ![n + 1] = lv],
             ret |-> lv]

\* the loop of update over g.dependencies(), from the k-th on, lv so far
update_fanins(b, st, deps, k, lv) ==
    IF k > Len(deps)
    THEN [visited |-> st.visited, levels |-> st.levels, ret |-> lv]
    ELSE IF is_input(deps[k])
         THEN update_fanins(b, st, deps, k + 1,
                            Max(lv, fanin_level(b, input(deps[k]))))
         ELSE IF ~is_constant(deps[k])
              THEN LET r == LevelViewBuilder_update(b, st, var(deps[k]))
                   IN update_fanins(b, r, deps, k + 1, Max(lv, r.ret))
              ELSE update_fanins(b, st, deps, k + 1, lv)

\* the loop of LevelViewBuilder::build over the outputs, from output po on
RECURSIVE build_loop(_, _, _)
build_loop(b, st, po) ==
    IF po >= nb_outputs(b.ntk)
    THEN Levels(st.levels)
    ELSE IF var_aborts(output(b.ntk, po))
         THEN VarAbort
         ELSE build_loop(b, LevelViewBuilder_update(b, st, var(output(b.ntk, po))),
                         po + 1)

\* LevelViewBuilder::build
LevelViewBuilder_build(b) ==
    build_loop(b, [visited |-> {}, levels |-> Zeros(nb_nodes(b.ntk))], 0)

\* pi_levels_ok accepting a table that is longer than the input list
pi_levels_ok_at_least(n, pi_levels_config) ==
    pi_levels_config.some => Len(pi_levels_config.v) >= n.nb_inputs

\* the assert_eq! of LevelViewBuilder::compute_levels
pi_levels_ok(n, pi_levels_config) ==
    pi_levels_config.some => Len(pi_levels_config.v) = n.nb_inputs

\* LevelViewBuilder::compute_levels
LevelViewBuilder_compute_levels(n, pi_levels_config, count_buffer) ==
    IF ~pi_levels_ok(n, pi_levels_config)
    THEN LengthAbort
    ELSE LevelViewBuilder_build([ntk |-> n,
                                 pi_levels |-> pi_levels_config,
                                 count_buffer |-> unwrap_or_true(count_buffer)])

\* ReverseLevelViewBuilder::fanout_level
fanout_level(b, po) ==
    IF b.po_levels.some THEN b.po_levels.v[po + 1] ELSE 0

\* the find of add_fanout_levels: the first output from po on whose node index
\* is that of sig; var is called on every output scanned
RECURSIVE find_output(_, _, _)
find_output(n, sig, po) ==
    IF po >= nb_outputs(n)
    THEN [abort |-> FALSE, found |-> FALSE]
    ELSE IF var_aborts(output(n, po))
         THEN [abort |-> TRUE, found |-> FALSE]
         ELSE IF var(output(n, po)) = var(sig)
              THEN [abort |-> FALSE, found |-> TRUE, idx |-> po]
              ELSE find_output(n, sig, po + 1)

\* add_fanout_levels taking the required level of the last output that names
\* the node of sig
add_fanout_levels_last(b, sig) ==
    IF ~b.po_levels.some \/ ~is_var(sig)
    THEN [abort |-> FALSE, ret |-> 0]
    ELSE LET f == find_output(b.ntk, sig, 0)
             hits == {po \in 0..(nb_outputs(b.ntk) - 1) :
                         /\ is_var(output(b.ntk, po))
                         /\ var(output(b.ntk, po)) = var(sig)}
         IN [abort |-> f.abort,
             ret |-> IF f.found
                     THEN fanout_level(b, CHOOSE po \in hits : \A q \in hits : q <= po)
                     ELSE 0]

\* ReverseLevelViewBuilder::add_fanout_levels
add_fanout_levels(b, sig) ==
    IF ~b.po_levels.some \/ ~is_var(sig)
    THEN [abort |-> FALSE, ret |-> 0]
    ELSE LET f == find_output(b.ntk, sig, 0)
         IN [abort |-> f.abort,
             ret |-> IF f.found THEN fanout_level(b, f.idx) ELSE 0]

\* ReverseLevelViewBuilder::update and update_node; st is
\* <<visited, levels, abort>>, the result adds the returned level
RECURSIVE ReverseLevelViewBuilder_update(_, _, _)
RECURSIVE update_fanouts(_, _, _, _, _)
RECURSIVE update_node(_, _, _)
ReverseLevelViewBuilder_update(b, st, sig) ==
    LET a == add_fanout_levels(b, sig)
    IN update_fanouts(b, [st EXCEPT !.abort = @ \/ a.abort],
                      fanouts(b.fanout_view, sig), 1, a.ret)

\* the loop of update over the fanouts of sig, from the k-th on, lv so far
update_fanouts(b, st, fo, k, lv) ==
    IF k > Len(fo)
    THEN [visited |-> st.visited, levels |-> st.levels, abort |-> st.abort,
          ret |-> lv]
    ELSE LET r == update_node(b, st, fo[k])
         IN update_fanouts(b, r, fo, k + 1, Max(lv, r.ret))

update_node(b, st, n) ==
    IF n \in st.visited
    THEN [visited |-> st.visited, levels |-> st.levels, abort |-> st.abort,
          ret |-> st.levels[n + 1]]
    ELSE LET r == ReverseLevelViewBuilder_update(
                      b, [st EXCEPT !.visited = @ \cup {n}], node(b.ntk, n))
             lv == r.ret + level_inc(b.count_buffer, gate(b.ntk, n))
         IN [visited |-> r.visited,
             levels |-> [r.levels EXCEPT ![n + 1] = lv],
             abort |-> r.abort,
             ret |-> lv]

\* the loop of ReverseLevelViewBuilder::build over the inputs, from input pi on
RECURSIVE reverse_build_loop(_, _, _)
reverse_build_loop(b, st, pi) ==
    IF st.abort
    THEN VarAbort
    ELSE IF pi >= b.ntk.nb_inputs
         THEN Levels(st.levels)
         ELSE reverse_build_loop(
                  b, ReverseLevelViewBuilder_update(b, st, input_signal(b.ntk, pi)),
                  pi + 1)

\* ReverseLevelViewBuilder::build
ReverseLevelViewBuilder_build(b) ==
    reverse_build_loop(
        b, [visited |-> {}, levels |-> Zeros(nb_nodes(b.ntk)), abort |-> FALSE], 0)

\* the assert_eq! of ReverseLevelViewBuilder::compute_levels
po_levels_ok(n, po_levels_config) ==
    po_levels_config.some => Len(po_levels_config.v) = nb_outputs(n)

\* ReverseLevelViewBuilder::compute_levels
ReverseLevelViewBuilder_compute_levels(n, fv, po_levels_config, count_buffer) ==
    IF ~po_levels_ok(n, po_levels_config)
    THEN LengthAbort
    ELSE ReverseLevelViewBuilder_build([ntk |-> n,
                                        fanout_view |-> fv,
                                        po_levels |-> po_levels_config,
                                        count_buffer |-> unwrap_or_true(count_buffer)])

\* the level tables a caller may pass: none, or one of length 0..maxlen
Tables(maxlen) ==
    {None} \cup UNION {{Some(v) : v \in [1..l -> 0..MaxLevel]} : l \in 0..maxlen}

CountBuffers == {None, Some(TRUE), Some(FALSE)}

\* the caller computes the forward levels of the network it has constructed
ComputeLevels ==
    /\ Building
    /\ \E t \in Tables(MaxInputs), cb \in CountBuffers :
        /\ call' = [fn |-> "levels", table |-> t, count_buffer |-> cb]
        /\ level_view' = LevelViewBuilder_compute_levels(ntk, t, cb)
    /\ UNCHANGED <<nb_inputs, nodes, outputs, aborted, fanout_view, hist>>

\* the caller computes the reverse levels, over a fanout view it builds first
ComputeReverseLevels ==
    /\ Building
    /\ \E t \in Tables(MaxOutputs), cb \in CountBuffers :
        /\ call' = [fn |-> "reverse_levels", table |-> t, count_buffer |-> cb]
        /\ fanout_view' = FanoutView_new(ntk)
        /\ level_view' =
               ReverseLevelViewBuilder_compute_levels(ntk, FanoutView_new(ntk), t, cb)
    /\ UNCHANGED <<nb_inputs, nodes, outputs, aborted, hist>>

\* ------------------------------------------------------------------ rewriting
\* Network::replace: overwrites the gate of node i in place
replace(n, i, g) == [n EXCEPT !.nodes[i + 1] = g]

\* substitute_node storing a gate that is not a forwarding wire
substitute_node_and(n, i, new_signal) == replace(n, i, And(new_signal, new_signal))

\* substitute_node that also drops the outputs naming the node
substitute_node_detach(n, i, new_signal) ==
    [nb_inputs |-> n.nb_inputs,
     nodes |-> [n.nodes EXCEPT ![i + 1] = Buf(new_signal)],
     outputs |-> SelectSeq(n.outputs, LAMBDA o : ~(is_var(o) /\ var(o) = i))]

\* substitute_node
substitute_node(n, i, new_signal) == replace(n, i, Buf(new_signal))

\* the signal a reference to s stands for once Buf nodes are forwarded
RECURSIVE resolve(_, _)
resolve(n, s) ==
    IF is_var(s) /\ is_buf(gate(n, var(s)))
    THEN LET t == resolve(n, dependencies(gate(n, var(s)))[1])
         IN IF s.inv THEN Not(t) ELSE t
    ELSE s

\* every referrer of a Buf node is repointed to its target, composing polarity
forward_bufs(n) ==
    [nb_inputs |-> n.nb_inputs,
     nodes |-> [k \in 1..Len(n.nodes) |->
                  [type |-> n.nodes[k].type,
                   deps |-> [j \in 1..Len(n.nodes[k].deps) |->
                               resolve(n, n.nodes[k].deps[j])]]],
     outputs |-> [k \in 1..Len(n.outputs) |-> resolve(n, n.outputs[k])]]

\* the new index of surviving node i: the number of survivors before it
new_index(keep, i) == Cardinality({j \in keep : j < i})

remap(keep, s) ==
    IF is_var(s) THEN [s EXCEPT !.idx = new_index(keep, @)] ELSE s

\* the k-th survivor, k = 1..
survivor(keep, k) == CHOOSE i \in keep : new_index(keep, i) = k - 1

\* rebuild the node sequence with the nodes of keep only, in their order, and
\* remap every surviving signal and output
retain(n, keep) ==
    [nb_inputs |-> n.nb_inputs,
     nodes |-> [k \in 1..Cardinality(keep) |->
                  LET g == gate(n, survivor(keep, k))
                  IN [type |-> g.type,
                      deps |-> [j \in 1..Len(g.deps) |-> remap(keep, g.deps[j])]]],
     outputs |-> [k \in 1..Len(n.outputs) |-> remap(keep, n.outputs[k])]]

\* node i is named by an output or by the dependency list of a node
has_referrer(n, i) ==
    \/ \E k \in 1..Len(n.outputs) : is_var(n.outputs[k]) /\ var(n.outputs[k]) = i
    \/ \E j \in 1..Len(n.nodes) :
           \E k \in 1..Len(n.nodes[j].deps) :
               is_var(n.nodes[j].deps[k]) /\ var(n.nodes[j].deps[k]) = i

\* drop the nodes left with no referrers, until none is left
RECURSIVE drop_unreferenced(_)
drop_unreferenced(n) ==
    LET keep == {i \in 0..(nb_nodes(n) - 1) : has_referrer(n, i)}
    IN IF Cardinality(keep) = nb_nodes(n)
       THEN n
       ELSE drop_unreferenced(retain(n, keep))

\* make_canonical dropping the nodes without referrers in one pass only
make_canonical_one_pass(n) ==
    retain(forward_bufs(n),
           {i \in 0..(nb_nodes(n) - 1) : has_referrer(forward_bufs(n), i)})

\* Network::make_canonical
make_canonical(n) == drop_unreferenced(forward_bufs(n))

\* the nodes named by the dependency lists of the nodes of from
fanin_nodes(n, from) ==
    {var(n.nodes[i + 1].deps[k]) :
        <<i, k>> \in {p \in from \X (1..2) :
                        /\ p[2] <= Len(n.nodes[p[1] + 1].deps)
                        /\ is_var(n.nodes[p[1] + 1].deps[p[2]])}}

\* the nodes transitively reachable from seen through dependencies
RECURSIVE reachable(_, _)
reachable(n, seen) ==
    IF fanin_nodes(n, seen) \subseteq seen
    THEN seen
    ELSE reachable(n, seen \cup fanin_nodes(n, seen))

\* the nodes the outputs name
output_nodes(n) ==
    {var(n.outputs[k]) : k \in {j \in 1..Len(n.outputs) : is_var(n.outputs[j])}}

\* Network::cleanup
cleanup(n) == retain(n, reachable(n, output_nodes(n)))

\* the network of test_substitute_node_1 and test_substitute_node_2:
\* f1 = x1 & x2, f2 = x3 & x4, f3 = x1 & x3, f4 = f1 & f2, f5 = f3 & f4
Example ==
    Network(4,
            <<And(Signal("input", 0, FALSE), Signal("input", 1, FALSE)),
              And(Signal("input", 2, FALSE), Signal("input", 3, FALSE)),
              And(Signal("input", 0, FALSE), Signal("input", 2, FALSE)),
              And(Signal("var", 0, FALSE), Signal("var", 1, FALSE)),
              And(Signal("var", 2, FALSE), Signal("var", 3, FALSE))>>,
            <<Signal("var", 4, FALSE)>>)

\* the caller is rewriting the network it has constructed
Rewriting == ~aborted /\ fanout_view = NoView /\ level_view = NoLevels

Op(name) == [op |-> name, nb |-> Len(nodes)]

NbOps(name) == Cardinality({k \in 1..Len(hist) : hist[k].op = name})

\* substitutions are batched before the cleanup passes
CanSubstitute ==
    /\ Rewriting
    /\ NbOps("substitute_node") = Len(hist)
    /\ Len(hist) < MaxSubst

CanPass ==
    /\ Rewriting
    /\ Len(hist) - NbOps("substitute_node") < MaxPasses

Becomes(n) ==
    /\ nb_inputs' = n.nb_inputs
    /\ nodes' = n.nodes
    /\ outputs' = n.outputs

\* substitute_node with a signal the caller's contract allows
SubstituteNode ==
    /\ CanSubstitute
    /\ \E i \in 0..(Len(nodes) - 1) :
           \E s \in {d \in Signals(nb_inputs, Len(nodes)) : ValidDep(ntk, i, d)} :
               /\ Becomes(substitute_node(ntk, i, s))
               /\ call' = [fn |-> "substitute_node", node |-> i, new_signal |-> s]
    /\ hist' = Append(hist, Op("substitute_node"))
    /\ UNCHANGED <<aborted, fanout_view, level_view>>

\* substitute_node with any signal of the network
SubstituteAny ==
    /\ CanSubstitute
    /\ \E i \in 0..(Len(nodes) - 1) :
           \E s \in Signals(nb_inputs, Len(nodes)) :
               /\ Becomes(substitute_node(ntk, i, s))
               /\ call' = [fn |-> "substitute_node", node |-> i, new_signal |-> s]
    /\ hist' = Append(hist, Op("substitute_node"))
    /\ UNCHANGED <<aborted, fanout_view, level_view>>

MakeCanonical ==
    /\ CanPass
    /\ Becomes(make_canonical(ntk))
    /\ call' = [fn |-> "make_canonical"]
    /\ hist' = Append(hist, Op("make_canonical"))
    /\ UNCHANGED <<aborted, fanout_view, level_view>>

Cleanup ==
    /\ CanPass
    /\ Becomes(cleanup(ntk))
    /\ call' = [fn |-> "cleanup"]
    /\ hist' = Append(hist, Op("cleanup"))
    /\ UNCHANGED <<aborted, fanout_view, level_view>>

\* add_output once more, with a signal of a node that an output already
\* names, in either polarity
AddSharedOutput ==
    /\ Building
    /\ Len(outputs) >= MaxOutputs
    /\ Len(outputs) < MaxOutputs + MaxShared
    /\ \E s \in Signals(nb_inputs, Len(nodes)) :
           /\ is_var(s)
           /\ \E k \in 1..Len(outputs) : SameSource(outputs[k], s)
           /\ outputs' = Append(outputs, s)
    /\ UNCHANGED <<nb_inputs, nodes, aborted, fanout_view, call, level_view, hist>>

\* the caller computes the reverse levels with a required level for each
\* output of the network
ComputeRequiredLevels ==
    /\ Building
    /\ \E v \in [1..Len(outputs) -> 0..MaxLevel], cb \in CountBuffers :
        /\ call' = [fn |-> "reverse_levels", table |-> Some(v), count_buffer |-> cb]
        /\ fanout_view' = FanoutView_new(ntk)
        /\ level_view' =
               ReverseLevelViewBuilder_compute_levels(ntk, FanoutView_new(ntk),
                                                      Some(v), cb)
    /\ UNCHANGED <<nb_inputs, nodes, outputs, aborted, hist>>

\* ------------------------------------------------------------------ specifications
NextBuild == AddInput \/ Add \/ AddOutput

SpecBuild == Init /\ [][NextBuild]_vars

NextFanout == AddInput \/ Add \/ AddOutput \/ BuildFanoutView

SpecFanout == Init /\ [][NextFanout]_vars

NextSubst == AddInput \/ Add \/ AddOutput \/ SubstituteAny

SpecSubst == Init /\ [][NextSubst]_vars

NextOptim == AddInput \/ Add \/ AddOutput \/ SubstituteNode \/ MakeCanonical \/ Cleanup

SpecOptim == Init /\ [][NextOptim]_vars

NextLevels == AddInput \/ Add \/ AddOutput \/ ComputeLevels \/ ComputeReverseLevels

SpecLevels == Init /\ [][NextLevels]_vars

NextRequired == AddInput \/ Add \/ AddOutput \/ AddSharedOutput \/ ComputeRequiredLevels

SpecRequired == Init /\ [][NextRequired]_vars

\* ------------------------------------------------------------------ properties
NodeIndices == 0..(Len(nodes) - 1)

Range(s) == {s[k] : k \in 1..Len(s)}

Deps(i) == dependencies(gate(ntk, i))

\* C1: fanout round-trip. In the view built from the network, every node n is
\* listed in fanouts(d) for each of its dependencies d that is an input or a
\* node; and every index n listed in fanouts(s), s an input or node signal of
\* either polarity, is a node whose dependency list holds a signal with the
\* source of s.
C1_FanoutRoundTrip ==
    fanout_view.built =>
        /\ \A n \in NodeIndices :
               \A d \in Range(Deps(n)) :
                   ~is_constant(d) => n \in Range(fanouts(fanout_view, d))
        /\ \A s \in Signals(nb_inputs, Len(nodes)) :
               ~is_constant(s) =>
                   \A n \in Range(fanouts(fanout_view, s)) :
                       /\ n \in NodeIndices
                       /\ \E d \in Range(Deps(n)) : SameSource(d, s)

\* a view of a network in which node 1 reads an input and the complement of
\* node 0
C1_Witness ==
    /\ fanout_view.built
    /\ Len(nodes) = 2
    /\ nb_inputs = 1
    /\ nodes[2] = And(Signal("var", 0, TRUE), Signal("input", 0, FALSE))
    /\ fanouts(fanout_view, Signal("var", 0, FALSE)) = <<1>>

Sorted(s) == \A k \in 1..Len(s) : \A l \in 1..Len(s) : k < l => s[k] <= s[l]

\* C2: fanout sortedness. The view holds exactly nb_inputs() input lists and
\* nb_nodes() node lists, and each list is sorted ascending by node index.
C2_FanoutSorted ==
    fanout_view.built =>
        /\ Len(fanout_view.pi_fanout) = nb_inputs
        /\ Len(fanout_view.node_fanout) = Len(nodes)
        /\ \A p \in 1..nb_inputs : Sorted(fanout_view.pi_fanout[p])
        /\ \A v \in 1..Len(nodes) : Sorted(fanout_view.node_fanout[v])

\* a view in which an input is read by two different nodes
C2_Witness ==
    /\ fanout_view.built
    /\ nb_inputs = 1
    /\ fanout_view.pi_fanout[1] = <<0, 1>>

\* C9: acyclicity. In every network built by add_input, add and add_output,
\* each dependency of the node at index i is a constant, a primary input or a
\* node of index strictly smaller than i.
C9_Acyclicity ==
    \A i \in NodeIndices :
        \A d \in Range(Deps(i)) :
            \/ is_constant(d)
            \/ is_input(d) /\ input(d) < nb_inputs
            \/ is_var(d) /\ var(d) < i

\* a network with an input and an output whose second node reads the first
C9_Witness ==
    /\ Len(nodes) = 2
    /\ \E d \in Range(Deps(1)) : is_var(d) /\ var(d) = 0
    /\ Len(outputs) = 1
    /\ nb_inputs = 1

\* the largest element of a finite set of naturals, 0 for the empty set
MaxOf(S) == IF S = {} THEN 0 ELSE CHOOSE m \in S : \A x \in S : x <= m

\* node i of n is reachable from an output through dependencies (n is
\* acyclic: a node is read only by nodes of larger index)
RECURSIVE LiveIn(_, _)
LiveIn(n, i) ==
    \/ \E o \in Range(n.outputs) : is_var(o) /\ var(o) = i
    \/ \E j \in 0..(nb_nodes(n) - 1) :
           /\ j > i
           /\ \E d \in Range(dependencies(gate(n, j))) : is_var(d) /\ var(d) = i
           /\ LiveIn(n, j)

Live(i) == LiveIn(ntk, i)

\* the count_buffer in force for the call made
CountBuffer == IF call.count_buffer.some THEN call.count_buffer.v ELSE TRUE

Inc(i) == IF gate(ntk, i).type = "Buf" /\ ~CountBuffer THEN 0 ELSE 1

TableFits(len) == call.table.some => Len(call.table.v) = len

TableAt(k) == IF call.table.some THEN call.table.v[k + 1] ELSE 0

\* what dependency d contributes to the level of the node reading it
FaninLevel(d) ==
    IF is_var(d)
    THEN level_view.levels[var(d) + 1]
    ELSE IF is_input(d) THEN TableAt(input(d)) ELSE 0

\* C3: forward levels. For an acyclic network whose outputs are node signals,
\* an arrival table of length nb_inputs() or none, and either count_buffer,
\* compute_levels returns nb_nodes() levels; a node reachable from an output
\* has level inc + max over its dependencies of the fanin's level (node), the
\* arrival level (input) or 0 (constant); any other node has level 0.
C3_ForwardLevels ==
    (/\ call.fn = "levels"
     /\ Acyclic(ntk)
     /\ \A o \in Range(outputs) : is_var(o)
     /\ TableFits(nb_inputs)) =>
        /\ level_view.status = "ok"
        /\ Len(level_view.levels) = Len(nodes)
        /\ \A n \in NodeIndices :
               level_view.levels[n + 1] =
                   IF Live(n)
                   THEN Inc(n) + MaxOf({FaninLevel(d) : d \in Range(Deps(n))})
                   ELSE 0

\* the levels of a chain of two nodes, both reachable from the output, under
\* an arrival level of 1
C3_Witness ==
    /\ call.fn = "levels"
    /\ call.table = Some(<<1>>)
    /\ level_view.status = "ok"
    /\ Len(nodes) = 2
    /\ Live(0) /\ Live(1)
    /\ level_view.levels = <<2, 3>>

\* the required level of node i as an output: that of the first output naming
\* it, 0 without a table or when no output names it
RequiredLevel(i) ==
    LET hits == {k \in 1..Len(outputs) : is_var(outputs[k]) /\ var(outputs[k]) = i}
    IN IF ~call.table.some \/ hits = {}
       THEN 0
       ELSE call.table.v[CHOOSE k \in hits : \A l \in hits : k <= l]

\* the level C4 gives node n
ReverseLevel(n) ==
    Inc(n) + MaxOf({RequiredLevel(n)}
                   \cup {level_view.levels[m + 1] :
                           m \in Range(fanouts(fanout_view, node(ntk, n)))})

\* C4: reverse levels. For an acyclic network, its fanout view, a required
\* level table of length nb_outputs() or none, and either count_buffer,
\* compute_levels gives every node n the level
\* inc + max(c(n), reverse levels of the nodes in fanouts(n)).
C4_ReverseLevels ==
    (/\ call.fn = "reverse_levels"
     /\ Acyclic(ntk)
     /\ TableFits(Len(outputs))
     /\ level_view.status = "ok") =>
        \A n \in NodeIndices : level_view.levels[n + 1] = ReverseLevel(n)

\* C10: level-table length validation. A forward computation given a table
\* whose length is not nb_inputs(), and a reverse computation given a table
\* whose length is not nb_outputs(), abort on the length and return no level
\* vector; a missing table is accepted and gives the result of a table of zeros.
C10_TableLength ==
    /\ (call.fn = "levels" /\ ~TableFits(nb_inputs)) =>
           level_view = LengthAbort /\ "levels" \notin DOMAIN level_view
    /\ (call.fn = "reverse_levels" /\ ~TableFits(Len(outputs))) =>
           level_view = LengthAbort /\ "levels" \notin DOMAIN level_view
    /\ (call.fn = "levels" /\ TableFits(nb_inputs)) => level_view # LengthAbort
    /\ (call.fn = "reverse_levels" /\ TableFits(Len(outputs))) =>
           level_view # LengthAbort
    /\ (call.fn = "levels" /\ ~call.table.some) =>
           level_view = LevelViewBuilder_compute_levels(
                            ntk, Some(Zeros(nb_inputs)), call.count_buffer)
    /\ (call.fn = "reverse_levels" /\ ~call.table.some) =>
           LET z == ReverseLevelViewBuilder_compute_levels(
                        ntk, fanout_view, Some(Zeros(Len(outputs))),
                        call.count_buffer)
           IN z.status = "ok" => level_view = z

\* a forward computation over a network with a node and an output that was
\* given a table longer than the input list
C10_Witness ==
    /\ call.fn = "levels"
    /\ call.table.some
    /\ Len(call.table.v) > nb_inputs
    /\ Len(nodes) >= 1
    /\ \E o \in Range(outputs) : is_var(o)
    /\ level_view = LengthAbort

LastOp == hist[Len(hist)]

\* the step appends operation name to the caller's history
Does(name) == hist' # hist /\ call'.fn = name

\* C5: substitute_node(network, i, s) makes the gate of node i Buf(s) and
\* changes nothing else: the numbers of nodes, inputs and outputs, every
\* output and the gate of every other node stay, and no node is renumbered.
C5_SubstituteFrame ==
    [][Does("substitute_node") =>
           /\ nodes'[call'.node + 1] = Buf(call'.new_signal)
           /\ Len(nodes') = Len(nodes)
           /\ \A j \in NodeIndices \ {call'.node} : nodes'[j + 1] = nodes[j + 1]
           /\ outputs' = outputs
           /\ nb_inputs' = nb_inputs]_vars

\* two substitutions made on a network of two nodes with an output, the
\* second on node 1: node 0 still holds the buffer the first one stored
C5_Witness ==
    /\ Len(hist) = 2
    /\ call.fn = "substitute_node"
    /\ call.node = 1
    /\ Len(nodes) = 2
    /\ nodes[1].type = "Buf"
    /\ nodes[2] = Buf(Signal("var", 0, TRUE))
    /\ Len(outputs) = 1

\* test_substitute_node_1: 5 nodes, and 4 once f2 is substituted by x3
Test1 ==
    /\ nb_nodes(Example) = 5
    /\ nb_nodes(make_canonical(
           substitute_node(Example, 1, Signal("input", 2, FALSE)))) = 4

\* C6: a valid substitute_node followed by make_canonical never increases
\* nb_nodes(), and strictly decreases it when the substituted node has become
\* collapsible (a Buf) or unreachable from the outputs; the 5-AND example goes
\* from 5 to 4 nodes.
C6_CanonicalShrinks ==
    [][/\ Test1
       /\ (/\ hist # <<>>
           /\ LastOp.op = "substitute_node"
           /\ Does("make_canonical")) =>
              /\ Len(nodes') <= LastOp.nb
              /\ (is_buf(gate(ntk, call.node)) \/ ~Live(call.node)) =>
                     Len(nodes') < LastOp.nb]_vars

\* a network of two nodes that a substitution and make_canonical left with one
C6_Witness ==
    /\ Len(hist) = 2
    /\ hist[1] = [op |-> "substitute_node", nb |-> 2]
    /\ hist[2] = [op |-> "make_canonical", nb |-> 2]
    /\ Len(nodes) = 1
    /\ Len(outputs) = 1

\* test_substitute_node_2: one node once f5 is substituted by f3
Test2 ==
    nb_nodes(cleanup(make_canonical(
        substitute_node(Example, 4, Signal("var", 2, FALSE))))) = 1

Rank(keep, i) == Cardinality({j \in keep : j < i})

Renumbered(keep, s) == IF is_var(s) THEN Signal("var", Rank(keep, var(s)), s.inv) ELSE s

\* post is pre with exactly its nodes reachable from an output kept, in their
\* order, and every signal and output naming them by their new indices
KeepsLive(pre, post) ==
    LET keep == {i \in 0..(nb_nodes(pre) - 1) : LiveIn(pre, i)}
    IN /\ nb_nodes(post) = Cardinality(keep)
       /\ \A i \in keep :
              /\ gate(post, Rank(keep, i)).type = gate(pre, i).type
              /\ Len(gate(post, Rank(keep, i)).deps) = Len(gate(pre, i).deps)
              /\ \A k \in 1..Len(gate(pre, i).deps) :
                     gate(post, Rank(keep, i)).deps[k] =
                         Renumbered(keep, gate(pre, i).deps[k])
       /\ Len(post.outputs) = Len(pre.outputs)
       /\ \A k \in 1..Len(pre.outputs) :
              post.outputs[k] = Renumbered(keep, pre.outputs[k])
       /\ post.nb_inputs = pre.nb_inputs

\* C7: after substitute_node, make_canonical and cleanup (and after any
\* cleanup that follows a substitution), every surviving node is reachable
\* from an output, every node that was not has been dropped and the surviving
\* signals and outputs are remapped; the 5-AND example is left with one node.
C7_CleanupReachable ==
    [][/\ Test2
       /\ (/\ NbOps("substitute_node") > 0
           /\ Does("cleanup")) =>
              LET post == Network(nb_inputs', nodes', outputs')
              IN /\ \A i \in 0..(nb_nodes(post) - 1) : LiveIn(post, i)
                 /\ KeepsLive(ntk, post)]_vars

\* a network of two nodes after substitute_node, make_canonical and cleanup
C7_Witness ==
    /\ Len(hist) = 3
    /\ hist[1] = [op |-> "substitute_node", nb |-> 2]
    /\ hist[2].op = "make_canonical"
    /\ hist[3].op = "cleanup"
    /\ Len(nodes) = 1
    /\ Len(outputs) = 1

\* C8: idempotence. On a network built by add_input, add, add_output and
\* substitute_node, a second make_canonical right after make_canonical, and a
\* second cleanup right after cleanup, leave the network as the first left it.
C8_Idempotent ==
    [][(/\ Len(hist) - NbOps("substitute_node") = 1
        /\ \/ LastOp.op = "make_canonical" /\ Does("make_canonical")
           \/ LastOp.op = "cleanup" /\ Does("cleanup")) =>
           /\ nodes' = nodes
           /\ outputs' = outputs
           /\ nb_inputs' = nb_inputs]_vars

\* make_canonical called twice after a substitution, the first call having
\* removed a node
C8_Witness ==
    /\ Len(hist) = 3
    /\ hist[1] = [op |-> "substitute_node", nb |-> 2]
    /\ hist[2] = [op |-> "make_canonical", nb |-> 2]
    /\ hist[3] = [op |-> "make_canonical", nb |-> 1]
    /\ Len(nodes) = 1

\* the substitution made by the step names a node that is not before the node
\* it rewrites: a forward or cyclic reference
ForwardReference(i, s) == is_var(s) /\ var(s) >= i

\* C11: fail-fast rewriting. substitute_node(network, i, s) with s a node
\* signal of index >= i fails and stores nothing, so every network reached
\* through add, replace and substitute_node satisfies the acyclicity invariant.
C11_RewriteFailsFast ==
    [][Does("substitute_node") =>
           /\ ForwardReference(call'.node, call'.new_signal) =>
                  aborted' /\ nodes' = nodes
           /\ Acyclic(ntk) => Acyclic(Network(nb_inputs', nodes', outputs'))]_vars

\* C12: forward levels on any well-formed network. For an acyclic network
\* whose outputs are node signals, primary inputs or constants, and a table of
\* length nb_inputs() or none, compute_levels does not abort: an output that
\* is not a node is no root of the walk and the levels of all nodes are
\* returned.
C12_ForwardCompletes ==
    (/\ call.fn = "levels"
     /\ Acyclic(ntk)
     /\ TableFits(nb_inputs)) =>
        /\ level_view.status # "abort"
        /\ \A n \in NodeIndices :
               level_view.levels[n + 1] =
                   IF Live(n)
                   THEN Inc(n) + MaxOf({FaninLevel(d) : d \in Range(Deps(n))})
                   ELSE 0

\* node i reads a primary input, directly or through other nodes: the reverse
\* walk, which starts from the inputs, computes its level
RECURSIVE FedByInput(_)
FedByInput(i) ==
    \E d \in Range(Deps(i)) :
        \/ is_input(d)
        \/ is_var(d) /\ var(d) < i /\ FedByInput(var(d))

\* the outputs that name node i, as indices into the output list
OutputsOf(i) == {k \in 1..Len(outputs) : is_var(outputs[k]) /\ var(outputs[k]) = i}

\* the builder of the reverse computation made
ReverseBuilder ==
    [ntk |-> ntk, fanout_view |-> fanout_view, po_levels |-> call.table,
     count_buffer |-> CountBuffer]

\* C13: shared outputs. In a reverse computation with a required-level table
\* that returns, the output contribution of a node is the required level of
\* the first output naming it, whatever the polarity of the outputs and the
\* required levels of later outputs naming it (0 when no output names it),
\* for every node the walk reaches; the level of such a node is inc + the
\* larger of that contribution and the levels of its fanouts.
C13_FirstOutputWins ==
    (/\ call.fn = "reverse_levels"
     /\ call.table.some
     /\ Acyclic(ntk)
     /\ level_view.status = "ok") =>
        \A n \in NodeIndices :
            LET first == CHOOSE k \in OutputsOf(n) : \A l \in OutputsOf(n) : k <= l
                c == IF OutputsOf(n) = {} THEN 0 ELSE call.table.v[first]
            IN FedByInput(n) =>
                   /\ add_fanout_levels(ReverseBuilder, node(ntk, n)) =
                          [abort |-> FALSE, ret |-> c]
                   /\ level_view.levels[n + 1] =
                          Inc(n) + MaxOf({c} \cup
                                         {level_view.levels[m + 1] :
                                            m \in Range(fanouts(fanout_view,
                                                                node(ntk, n)))})

\* a node without fanout, read from an input and named by two outputs of
\* opposite polarity: the first requires level 0, the second level 1, and the
\* node gets level 1 + 0
C13_Witness ==
    /\ call.fn = "reverse_levels"
    /\ call.table = Some(<<0, 1>>)
    /\ CountBuffer
    /\ level_view.status = "ok"
    /\ Len(nodes) = 1
    /\ FedByInput(0)
    /\ outputs = <<Signal("var", 0, FALSE), Signal("var", 0, TRUE)>>
    /\ level_view.levels = <<1>>

\* how many times x occurs in the sequence q
Occurrences(q, x) == Cardinality({k \in 1..Len(q) : q[k] = x})

\* how many dependencies of node n have the source of s
Reads(n, s) == Cardinality({k \in 1..Len(Deps(n)) : SameSource(Deps(n)[k], s)})

StrictlySorted(q) == \A k \in 1..Len(q) : \A l \in 1..Len(q) : k < l => q[k] < q[l]

\* the signals that own a fanout list: the inputs and the nodes
Sources == {s \in Signals(nb_inputs, Len(nodes)) : ~is_constant(s)}

\* C14: fanout lists as sets. In every view, no dependent-node index occurs
\* more than once in fanouts(s): each list is strictly ascending, also when a
\* gate lists the same source several times, with equal or opposite polarity.
C14_FanoutIsSet ==
    fanout_view.built =>
        \A s \in Sources : StrictlySorted(fanouts(fanout_view, s))

\* C14 as amended: node n occurs in fanouts(s) once for each dependency of n
\* whose source is that of s, whatever the polarity; the list is strictly
\* ascending exactly when no gate lists the source of s more than once.
C14_FanoutMultiplicity ==
    fanout_view.built =>
        \A s \in Sources :
            /\ \A n \in NodeIndices :
                   Occurrences(fanouts(fanout_view, s), n) = Reads(n, s)
            /\ StrictlySorted(fanouts(fanout_view, s)) <=>
                   \A n \in NodeIndices : Reads(n, s) <= 1

\* a view of a network whose second node reads the first in both polarities
C14_Witness ==
    /\ fanout_view.built
    /\ Len(nodes) = 2
    /\ nodes[2] = And(Signal("var", 0, FALSE), Signal("var", 0, TRUE))
    /\ fanouts(fanout_view, Signal("var", 0, TRUE)) = <<1, 1>>

====
